---- MODULE Spec2Model ----
(***************************************************************************)
(* FileReadAI: the form store (stores/formStore.js), the provider router   *)
(* (services/AIProviderService.js) and the form processing service         *)
(* (services/FormProcessingService.js) as one state machine.               *)
(*                                                                         *)
(* JavaScript runs one job at a time:  an async function runs without      *)
(* interruption up to its next await of an external result (pdf.js, a      *)
(* provider's HTTP call).  Each action below is one such uninterrupted     *)
(* stretch of one store action; the variables runs, navs and uploads hold  *)
(* the invocations suspended at an await, with their local variables.      *)
(***************************************************************************)
EXTENDS Integers, Sequences, FiniteSets, TLC

(***************************************************************************)
(* Bounds of the exploration.                                              *)
(***************************************************************************)
\* pages of the largest PDF offered to uploadForm
MaxPages == 2
\* extractFields invocations that get past the "No form uploaded" guard
MaxRuns == 2
\* extractFields invocations suspended at an await at the same time
MaxInFlight == 2
\* uploadForm / goToPage invocations suspended at an await at the same time
MaxPending == 1
\* object URLs handed out by URL.createObjectURL
MaxUrls == 2
\* readings of the millisecond clock beyond the first one
MaxClock == 1
\* SpecHistory: extractFields invocations, and uploads
MaxHistoryRuns == 11
MaxHistoryUploads == 1
\* SpecProviders: extractFields invocations, and uploads
MaxProviderRuns == 1
MaxProviderUploads == 1
\* SpecFields: extractFields invocations, uploads, and fields in the collection
MaxFieldRuns == 1
MaxFieldUploads == 1
MaxFields == 2
\* SpecExport: extractFields invocations, and uploads
MaxExportRuns == 2
MaxExportUploads == 1
\* SpecBackends: extractions and uploads
MaxBackendRuns == 2
MaxBackendUploads == 1
\* SpecLive: extractions and uploads
MaxLiveRuns == 2
MaxLiveUploads == 1

(***************************************************************************)
(* Program constants.                                                      *)
(***************************************************************************)
\* validateImageFile: const maxSize = 10 * 1024 * 1024
maxSize == 10485760
\* extractFields: [historyEntry, ...state.history].slice(0, 10)
HistoryLimit == 10
\* formatExtractedData: field.confidence || 0.8, in hundredths
DefaultConfidence == 80
\* processingPage: null (page numbers start at 1)
NullPage == 0
\* Date.now() of the first clock reading; far above any field index
Epoch == 10 * 100

(***************************************************************************)
(* JavaScript values.                                                      *)
(***************************************************************************)
\* null (for object-valued state: currentForm, originalFile, extractedData, ...)
Null == [null |-> TRUE]
\* undefined, where a string is expected (a missing formTitle)
Undefined == "<undefined>"
\* error: null
NoError == <<>>

\* x || d for strings: the empty string and undefined are falsy
OrStr(x, d) == IF x # "" /\ x # Undefined THEN x ELSE d
\* x || d for numbers: 0 is falsy
OrNum(x, d) == IF x # 0 THEN x ELSE d
\* obj.key of an object that may lack the key (undefined is modelled as absent)
Has(obj, key) == key \in DOMAIN obj

\* arr.slice(0, n)
Slice0(arr, n) == SubSeq(arr, 1, IF Len(arr) < n THEN Len(arr) ELSE n)

\* String(n) for the page numbers that occur in messages
ToStr(n) ==
  CASE n = 0 -> "0" [] n = 1 -> "1" [] n = 2 -> "2" [] n = 3 -> "3"
    [] n = 4 -> "4" [] OTHER -> "n"

(***************************************************************************)
(* AIProviderService: the provider table and the active provider.          *)
(***************************************************************************)
\* Object.keys(this.providers), in insertion order
ProviderKeys == <<"gpt-4o", "gemini", "claude">>
KnownProviders == {ProviderKeys[i] : i \in DOMAIN ProviderKeys}
\* this.providers[key].name
ProviderName(key) ==
  CASE key = "gpt-4o" -> "GPT-4o"
    [] key = "gemini" -> "Gemini 2.5"
    [] key = "claude" -> "Claude 3.5"
    [] OTHER -> key
\* Keys every object literal inherits from Object.prototype: this.providers[key]
\* is a function (truthy) for them although the table has no such provider.
\* The name of the function Object.prototype.toString is "toString".
PrototypeKeys == {"toString"}
\* Keys offered to setProvider
SomeKeys == KnownProviders \cup PrototypeKeys \cup {"llama"}

\* this.providers[key]: "entry", "inherited" (a prototype member) or "undefined"
providersLookup(key) ==
  IF key \in KnownProviders THEN "entry"
  ELSE IF key \in PrototypeKeys THEN "inherited"
  ELSE "undefined"

\* getDefaultProvider: const priorityOrder = ['gemini', 'gpt-4o', 'claude']
priorityOrder == <<"gemini", "gpt-4o", "claude">>

VARIABLES
  \* import.meta.env: the provider keys whose API key is set (fixed per build)
  configured,
  \* AIProviderService.currentProvider
  currentProvider,
  \* the store's state (formStore.js lines 22-34)
  currentForm, originalFile, extractedData, processing, error, history,
  imagePreview, selectedProvider, isPDF, currentPage, totalPages, processingPage,
  \* extractFields invocations suspended at an await, oldest first
  runs,
  \* goToPage invocations suspended at an await
  navs,
  \* uploadForm invocations suspended at an await
  uploads,
  \* the object URLs that are live (created and not revoked), and how many were made
  urls, nextUrl,
  \* Date.now() - Epoch
  now,
  \* how many extractFields invocations got past the guard
  nRuns,
  \* the last call that settled: [op, err], err = NoError when it returned and the
  \* message it threw otherwise.  For setProvider also key, its argument, and for
  \* an uploadForm that validateImageFile turned away file, its argument.  For
  \* extractFields also run, its local variables then (op = "page" when it has
  \* just published a page and goes on), and, when it threw, was: the
  \* extractedData of the store when the exception reached its catch.  For a
  \* field operation also args, its arguments, and was and page: the extractedData
  \* and currentPage it found
  outcome

registry == <<configured, currentProvider>>
session == <<currentForm, originalFile, extractedData, imagePreview, isPDF,
             currentPage, totalPages>>
store == <<session, processing, error, history, selectedProvider, processingPage>>
pending == <<runs, navs, uploads>>
vars == <<registry, store, pending, urls, nextUrl, now, nRuns, outcome>>

Returned(op) == [op |-> op, err |-> NoError]
Threw(op, msg) == [op |-> op, err |-> msg]
RunEvent(op, run) == [op |-> op, err |-> NoError, run |-> run]
RunThrew(msg, run, data) == [op |-> "extractFields", err |-> msg, run |-> run, was |-> data]

\* this.providers[key].isConfigured()
isConfigured(key) == key \in configured

RECURSIVE FirstConfigured(_, _)
\* the loop of getDefaultProvider over priorityOrder, from position i
FirstConfigured(env, i) ==
  IF i > Len(priorityOrder) THEN "gpt-4o"
  ELSE IF priorityOrder[i] \in env THEN priorityOrder[i]
  ELSE FirstConfigured(env, i + 1)

\* a default that falls back to the head of priorityOrder
getDefaultProviderHeadOfOrder(env) ==
  IF FirstConfigured(env, 1) \in env THEN FirstConfigured(env, 1) ELSE priorityOrder[1]

\* AIProviderService.getDefaultProvider()
getDefaultProvider(env) == FirstConfigured(env, 1)

\* AIProviderService.getProviderInfo(key)?.name || key
\* (for an inherited key the entry is a function and .name is the function's name)
ProviderLabel(key) ==
  IF providersLookup(key) = "undefined" THEN key ELSE OrStr(ProviderName(key), key)

(***************************************************************************)
(* Files offered to uploadForm.                                            *)
(***************************************************************************)
ImageFile == [name |-> "scan.png", type |-> "image/png", size |-> 2048, pages |-> 1]
\* a PDF of n pages, of exactly the maximal size
PdfFile(n) == [name |-> "form.pdf", type |-> "application/pdf", size |-> maxSize, pages |-> n]
TextFile == [name |-> "notes.txt", type |-> "text/plain", size |-> 12, pages |-> 1]
HugeFile == [name |-> "huge.jpg", type |-> "image/jpeg", size |-> maxSize + 1, pages |-> 1]
Files == {ImageFile, TextFile, HugeFile} \cup {PdfFile(n) : n \in 1..MaxPages}

allowedTypes == {"image/jpeg", "image/jpg", "image/png", "image/webp", "application/pdf"}

\* a validation that turns away a file of exactly maxSize
validateImageFileBelowMax(file) ==
  IF file = Null THEN <<"No file provided">>
  ELSE IF file.type \notin allowedTypes
    THEN <<"Invalid file type. Please upload JPG, PNG, WebP images or PDF files.">>
  ELSE IF file.size >= maxSize THEN <<"File too large. Maximum size is 10MB.">>
  ELSE NoError

\* FormProcessingService.validateImageFile(file): NoError when valid
validateImageFile(file) ==
  IF file = Null THEN <<"No file provided">>
  ELSE IF file.type \notin allowedTypes
    THEN <<"Invalid file type. Please upload JPG, PNG, WebP images or PDF files.">>
  ELSE IF file.size > maxSize THEN <<"File too large. Maximum size is 10MB.">>
  ELSE NoError

\* FormProcessingService.isPDF(file)
isPDFFile(file) == file.type = "application/pdf"

\* new File([imageBlob], pdf.name, { type: 'image/png' }): the raster of one page
PageFile(pdf, page) == [name |-> pdf.name, type |-> "image/png", page |-> page]

(***************************************************************************)
(* What a provider returns (the parsed JSON of the model's answer), and    *)
(* FormProcessingService.formatExtractedData.                              *)
(***************************************************************************)
Box == [x |-> 10, y |-> 20, width |-> 30, height |-> 5]
\* a field with every attribute present
RawFull == [label |-> "Name", value |-> "Ann", type |-> "email", confidence |-> 95,
            boundingBox |-> Box]
\* a field with an empty label, confidence 0 and nothing else
RawZero == [label |-> "", confidence |-> 0]
\* a field object with no attribute at all
RawBare == <<>>

RespInvoice == [formTitle |-> "Invoice", fields |-> <<RawFull>>]
\* no formTitle
RespUntitled == [fields |-> <<RawZero, RawFull>>]
\* no fields array
RespNoFields == [formTitle |-> "Receipt"]
RespReceipt == [formTitle |-> "Receipt", fields |-> <<RawBare>>]
RawResponses == {RespInvoice, RespUntitled, RespNoFields}

\* `Field ${index + 1}`
FieldN(index) ==
  CASE index = 0 -> "Field 1" [] index = 1 -> "Field 2" [] index = 2 -> "Field 3"
    [] OTHER -> "Field n"

\* a mapping that numbers the ids by the extraction that made them
formatFieldCounted(field, index, pageNumber) ==
  [id |-> <<"field", index, nRuns>>,
   label |-> IF Has(field, "label") THEN OrStr(field.label, FieldN(index)) ELSE FieldN(index),
   value |-> IF Has(field, "value") THEN OrStr(field.value, "") ELSE "",
   type |-> IF Has(field, "type") THEN OrStr(field.type, "text") ELSE "text",
   confidence |-> IF Has(field, "confidence") THEN OrNum(field.confidence, DefaultConfidence)
                  ELSE DefaultConfidence,
   verified |-> FALSE,
   boundingBox |-> IF Has(field, "boundingBox") THEN field.boundingBox ELSE Null]

\* the object formatExtractedData builds for rawData.fields[index] (0-based index)
formatField(field, index, pageNumber) ==
  [id |-> <<"field", index, pageNumber>>,
   label |-> IF Has(field, "label") THEN OrStr(field.label, FieldN(index))
             ELSE FieldN(index),
   value |-> IF Has(field, "value") THEN OrStr(field.value, "") ELSE "",
   type |-> IF Has(field, "type") THEN OrStr(field.type, "text") ELSE "text",
   confidence |-> IF Has(field, "confidence") THEN OrNum(field.confidence, DefaultConfidence)
                  ELSE DefaultConfidence,
   verified |-> FALSE,
   boundingBox |-> IF Has(field, "boundingBox") THEN field.boundingBox ELSE Null]

RECURSIVE formatFields(_, _)
\* rawData.fields.map((field, index) => ...)
formatFields(fields, pageNumber) ==
  IF fields = <<>> THEN <<>>
  ELSE formatFields(SubSeq(fields, 1, Len(fields) - 1), pageNumber)
         \o <<formatField(fields[Len(fields)], Len(fields) - 1, pageNumber)>>

\* FormProcessingService.formatExtractedData(rawData, pageNumber), without extractedAt
formatExtractedData(rawData, pageNumber) ==
  IF rawData = Null \/ ~Has(rawData, "fields")
  THEN [fields |-> <<>>, formTitle |-> "Unknown Form"]
  ELSE [fields |-> formatFields(rawData.fields, pageNumber),
        formTitle |-> IF Has(rawData, "formTitle") THEN rawData.formTitle ELSE Undefined]

\* a tagging that numbers the pages from 2
withPageShifted(fields, pageNum) ==
  [j \in 1..Len(fields) |->
     [k \in DOMAIN fields[j] \cup {"page"} |->
        IF k = "page" THEN pageNum + 1 ELSE fields[j][k]]]

RECURSIVE withPage(_, _)
\* fields.map(field => ({ ...field, page: pageNum }))
withPage(fields, pageNum) ==
  IF fields = <<>> THEN <<>>
  ELSE <<[k \in DOMAIN fields[1] \cup {"page"} |->
            IF k = "page" THEN pageNum ELSE fields[1][k]]>>
         \o withPage(Tail(fields), pageNum)

(***************************************************************************)
(* Error messages, as the pieces they are concatenated from.               *)
(***************************************************************************)
NoFormMsg == <<"No form uploaded">>
UnknownProviderMsg(key) == <<"Unknown provider: ", key>>
NotConfiguredMsg(name) ==
  <<name, " is not configured. Please add the API key to your .env file. ",
    "Alternatively, try another provider from the dropdown.">>
\* calling this.providers[key].isConfigured when the entry is a prototype member
NotAFunctionMsg == <<"TypeError: this.providers[this.currentProvider].isConfigured is not a function">>
NotAPdfMsg == <<"Current file is not a PDF">>
InvalidPageMsg(total) == <<"Invalid page number. Must be between 1 and ", ToStr(total)>>
\* what pdf.js or the canvas reports
RasterErrors == {<<"Failed to convert PDF to image">>}
PdfPageMsg(page, cause) == <<"Failed to convert PDF page ", ToStr(page), ": ">> \o cause
PdfMsg(cause) == <<"Failed to convert PDF: ">> \o cause
\* what a backend throws: a request error, a truncated answer, unparsable JSON
ProviderErrors == {<<"Could not parse JSON from AI response">>}

(***************************************************************************)
(* The initial state: the module is loaded for the first time, nothing is  *)
(* persisted yet.                                                          *)
(***************************************************************************)
\* URL.createObjectURL: the n-th object URL
Url(n) == [blob |-> n]

\* the store's initial state (formStore.js lines 22-34), given what persist restores
StoreInit(persistedHistory, persistedProvider) ==
  /\ currentForm = Null
  /\ originalFile = Null
  /\ extractedData = Null
  /\ processing = FALSE
  /\ error = NoError
  /\ history = persistedHistory
  /\ imagePreview = Null
  /\ selectedProvider = persistedProvider
  /\ isPDF = FALSE
  /\ currentPage = 1
  /\ totalPages = 1
  /\ processingPage = NullPage

InitWith(envs) ==
  /\ configured \in envs
  /\ currentProvider = getDefaultProvider(configured)
  /\ StoreInit(<<>>, getDefaultProvider(configured))
  /\ runs = <<>>
  /\ navs = <<>>
  /\ uploads = <<>>
  /\ urls = {}
  /\ nextUrl = 0
  /\ now = 0
  /\ nRuns = 0
  /\ outcome = Returned("load")

\* s without its i-th element
Remove(s, i) == SubSeq(s, 1, i - 1) \o SubSeq(s, i + 1, Len(s))

\* object URLs still owed to suspended invocations count against MaxUrls
UrlBudget == nextUrl + Len(navs) + Len(uploads) < MaxUrls

\* time passes
Tick ==
  /\ now < MaxClock
  /\ now' = now + 1
  /\ UNCHANGED <<registry, store, pending, urls, nextUrl, nRuns, outcome>>

(***************************************************************************)
(* setProvider                                                             *)
(***************************************************************************)
\* AIProviderService.setProvider: the key passes when this.providers[key] is truthy
registryAccepts(key) == providersLookup(key) # "undefined"

\* the store's setProvider(provider)
setProvider(key) ==
  /\ IF registryAccepts(key)
     THEN /\ currentProvider' = key
          /\ selectedProvider' = key
          /\ outcome' = [op |-> "setProvider", err |-> NoError, key |-> key]
     ELSE /\ UNCHANGED <<currentProvider, selectedProvider>>
          /\ outcome' = [op |-> "setProvider", err |-> UnknownProviderMsg(key),
                         key |-> key]
  /\ UNCHANGED <<configured, session, processing, error, history, processingPage,
                 pending, urls, nextUrl, now, nRuns>>

(***************************************************************************)
(* uploadForm                                                              *)
(***************************************************************************)
\* a set() that puts the new document in place and keeps the data and the page
sessionKeepingData(form, original, preview, pdf, pageCount) ==
  /\ currentForm' = form
  /\ originalFile' = original
  /\ imagePreview' = preview
  /\ processing' = FALSE
  /\ isPDF' = pdf
  /\ totalPages' = pageCount
  /\ UNCHANGED <<extractedData, currentPage>>

\* set({ currentForm, originalFile, imagePreview, extractedData: null, ... })
sessionOf(form, original, preview, pdf, pageCount) ==
  /\ currentForm' = form
  /\ originalFile' = original
  /\ imagePreview' = preview
  /\ extractedData' = Null
  /\ processing' = FALSE
  /\ isPDF' = pdf
  /\ currentPage' = 1
  /\ totalPages' = pageCount

\* uploadForm(file), up to its first await or to its end
uploadForm(file) ==
  LET invalid == validateImageFile(file) IN
  IF invalid # NoError
  THEN \* set({processing: true, error: null}); throw; catch: set({error, processing: false})
       /\ error' = invalid
       /\ processing' = FALSE
       /\ outcome' = [op |-> "uploadForm", err |-> invalid, file |-> file]
       /\ UNCHANGED <<registry, session, history, selectedProvider, processingPage,
                      pending, urls, nextUrl, now, nRuns>>
  ELSE IF isPDFFile(file)
  THEN \* suspended at await getPDFPageCount(file)
       /\ UrlBudget
       /\ Len(uploads) < MaxPending
       /\ processing' = TRUE
       /\ error' = NoError
       /\ uploads' = Append(uploads, [file |-> file])
       /\ UNCHANGED <<registry, session, history, selectedProvider, processingPage,
                      runs, navs, urls, nextUrl, now, nRuns, outcome>>
  ELSE \* an image: no await, the whole function runs at once
       /\ UrlBudget
       /\ nextUrl' = nextUrl + 1
       /\ urls' = urls \cup {Url(nextUrl + 1)}
       /\ sessionOf(file, Null, Url(nextUrl + 1), FALSE, 1)
       /\ error' = NoError
       /\ outcome' = Returned("uploadForm")
       /\ UNCHANGED <<registry, history, selectedProvider, processingPage,
                      pending, now, nRuns>>

\* uploadForm resumes: pdf.js gave the page count and the first page's image
uploadResolved(i) ==
  LET file == uploads[i].file IN
  /\ nextUrl' = nextUrl + 1
  /\ urls' = urls \cup {Url(nextUrl + 1)}
  /\ sessionOf(PageFile(file, 1), file, Url(nextUrl + 1), TRUE, file.pages)
  /\ uploads' = Remove(uploads, i)
  /\ outcome' = Returned("uploadForm")
  /\ UNCHANGED <<registry, error, history, selectedProvider, processingPage,
                 runs, navs, now, nRuns>>

\* uploadForm resumes: getPDFPageCount or convertPDFToImage threw
uploadRejected(i, msg) ==
  /\ error' = msg
  /\ processing' = FALSE
  /\ uploads' = Remove(uploads, i)
  /\ outcome' = Threw("uploadForm", msg)
  /\ UNCHANGED <<registry, session, history, selectedProvider, processingPage,
                 runs, navs, urls, nextUrl, now, nRuns>>

(***************************************************************************)
(* extractFields                                                           *)
(***************************************************************************)
\* an extractFormFields that does not look at isCurrentProviderConfigured()
extractFormFieldsUnguarded(key) ==
  IF providersLookup(key) = "inherited" THEN NotAFunctionMsg ELSE NoError

\* AIProviderService.extractFormFields before it reaches the backend: the message
\* it throws, or NoError when it goes on to service.extractFormFields(imageFile)
extractFormFieldsThrows(key) ==
  IF providersLookup(key) = "inherited" THEN NotAFunctionMsg
  ELSE IF ~isConfigured(key) THEN NotConfiguredMsg(ProviderName(key))
  ELSE NoError

\* isPDF && totalPages > 1 && originalFile
isMultiPage(pdf, total, original) == pdf /\ total > 1 /\ original # Null

\* a catch that also files the failure in the history
catchErrorFiled(msg) ==
  /\ error' = msg
  /\ processing' = FALSE
  /\ processingPage' = NullPage
  /\ history' = Slice0(<<[id |-> Epoch + now, error |-> msg]>> \o history, HistoryLimit)
  /\ UNCHANGED <<session, selectedProvider>>

\* catch (error) { set({ error: error.message, processing: false, processingPage: null }) }
catchError(msg) ==
  /\ error' = msg
  /\ processing' = FALSE
  /\ processingPage' = NullPage
  /\ UNCHANGED <<session, history, selectedProvider>>

\* if (pageNum === 1) { formTitle = formattedData.formTitle }
pageTitle(pageNum, formTitle, formattedTitle) ==
  IF pageNum = 1 THEN formattedTitle ELSE formTitle

\* a merge that keeps the last page only
mergeFieldsLastPage(allFields, fieldsWithPage) == fieldsWithPage

\* allFields = [...allFields, ...fieldsWithPage]
mergeFields(allFields, fieldsWithPage) == allFields \o fieldsWithPage

\* state.extractedData?.formTitle
storedTitle(data) == IF data = Null THEN Undefined ELSE data.formTitle

\* a publish that keeps the fields already in the store in front of the run's
pageDataKeepingStored(formTitle, allFields, data, time) ==
  [formTitle |-> OrStr(formTitle, OrStr(storedTitle(data), "")),
   fields |-> (IF data = Null THEN <<>> ELSE data.fields) \o allFields,
   extractedAt |-> time]

\* the object published after each page (lines 152-158)
pageData(formTitle, allFields, data, time) ==
  [formTitle |-> OrStr(formTitle, OrStr(storedTitle(data), "")),
   fields |-> allFields,
   extractedAt |-> time]

\* const finalData = { formTitle, fields: allFields, extractedAt }
finalDataOf(formTitle, allFields, time) ==
  [formTitle |-> formTitle, fields |-> allFields, extractedAt |-> time]

\* const historyEntry = { id, filename, extractedAt, fieldsCount, formTitle, provider }
historyEntryOf(form, provider, formTitle, allFields, time) ==
  [id |-> Epoch + time,
   filename |-> form.name,
   extractedAt |-> time,
   fieldsCount |-> Len(allFields),
   formTitle |-> formTitle,
   provider |-> ProviderLabel(provider)]

\* a history that grows at its end
pushHistoryAtEnd(entry, list) == Slice0(list \o <<entry>>, HistoryLimit)

\* [historyEntry, ...state.history].slice(0, 10)
pushHistory(entry, list) == Slice0(<<entry>> \o list, HistoryLimit)

\* one call of AIProviderService.extractFormFields: the active provider then, and
\* whether the call reached the backend (service.extractFormFields)
ProviderCall(key) == [provider |-> key, invoked |-> extractFormFieldsThrows(key) = NoError]

\* the local variables of an extractFields invocation suspended at an await;
\* resp and used record, for the properties, what the providers returned to it
\* and its calls of AIProviderService.extractFormFields
NewRun(pc, used) ==
  [currentForm |-> currentForm, originalFile |-> originalFile,
   selectedProvider |-> selectedProvider, isPDF |-> isPDF, totalPages |-> totalPages,
   pc |-> pc, pageNum |-> 1, allFields |-> <<>>, formTitle |-> "",
   resp |-> <<>>, used |-> used]

\* an extractFields whose test for a document sits inside its try block
extractFieldsCallGuardInTry(cap) ==
  IF currentForm = Null
  THEN /\ catchError(NoFormMsg)
       /\ outcome' = Threw("extractFields", NoFormMsg)
       /\ UNCHANGED <<registry, pending, urls, nextUrl, now, nRuns>>
  ELSE
    /\ nRuns < cap
    /\ Len(runs) < MaxInFlight
    /\ nRuns' = nRuns + 1
    /\ IF isMultiPage(isPDF, totalPages, originalFile)
       THEN /\ processing' = TRUE
            /\ error' = NoError
            /\ processingPage' = 1
            /\ runs' = Append(runs, NewRun("raster", <<>>))
            /\ UNCHANGED <<session, history, selectedProvider, outcome>>
       ELSE LET thrown == extractFormFieldsThrows(currentProvider) IN
            IF thrown # NoError
            THEN /\ catchError(thrown)
                 /\ outcome' = RunThrew(thrown,
                                  NewRun("provider", <<ProviderCall(currentProvider)>>),
                                  extractedData)
                 /\ UNCHANGED runs
            ELSE /\ processing' = TRUE
                 /\ error' = NoError
                 /\ runs' = Append(runs,
                                  NewRun("provider", <<ProviderCall(currentProvider)>>))
                 /\ UNCHANGED <<session, history, selectedProvider, processingPage,
                                outcome>>
    /\ UNCHANGED <<registry, navs, uploads, urls, nextUrl, now>>

\* extractFields(), up to its first await; cap bounds the invocations explored
extractFieldsCall(cap) ==
  IF currentForm = Null
  THEN /\ outcome' = Threw("extractFields", NoFormMsg)
       /\ UNCHANGED <<registry, store, pending, urls, nextUrl, now, nRuns>>
  ELSE
    /\ nRuns < cap
    /\ Len(runs) < MaxInFlight
    /\ nRuns' = nRuns + 1
    /\ IF isMultiPage(isPDF, totalPages, originalFile)
       THEN \* set({processing: true, error: null}); set({processingPage: 1});
            \* suspended at await convertPDFPageToImage(originalFile, 1)
            /\ processing' = TRUE
            /\ error' = NoError
            /\ processingPage' = 1
            /\ runs' = Append(runs, NewRun("raster", <<>>))
            /\ UNCHANGED <<session, history, selectedProvider, outcome>>
       ELSE LET thrown == extractFormFieldsThrows(currentProvider) IN
            IF thrown # NoError
            THEN /\ catchError(thrown)
                 /\ outcome' = RunThrew(thrown,
                                  NewRun("provider", <<ProviderCall(currentProvider)>>),
                                  extractedData)
                 /\ UNCHANGED runs
            ELSE \* suspended at await AIProviderService.extractFormFields(currentForm)
                 /\ processing' = TRUE
                 /\ error' = NoError
                 /\ runs' = Append(runs,
                                  NewRun("provider", <<ProviderCall(currentProvider)>>))
                 /\ UNCHANGED <<session, history, selectedProvider, processingPage,
                                outcome>>
    /\ UNCHANGED <<registry, navs, uploads, urls, nextUrl, now>>

\* an invocation resumes with the page image and calls the provider
rasterResolved(i) ==
  LET thrown == extractFormFieldsThrows(currentProvider)
      run == [runs[i] EXCEPT !.used = Append(@, ProviderCall(currentProvider))] IN
  /\ run.pc = "raster"
  /\ IF thrown # NoError
     THEN /\ catchError(thrown)
          /\ runs' = Remove(runs, i)
          /\ outcome' = RunThrew(thrown, run, extractedData)
     ELSE /\ runs' = [runs EXCEPT ![i] = [run EXCEPT !.pc = "provider"]]
          /\ UNCHANGED <<store, outcome>>
  /\ UNCHANGED <<registry, navs, uploads, urls, nextUrl, now, nRuns>>

\* an invocation resumes with an exception: of convertPDFPageToImage or of the backend
runRejected(i, msg) ==
  /\ catchError(msg)
  /\ runs' = Remove(runs, i)
  /\ outcome' = RunThrew(msg, runs[i], extractedData)
  /\ UNCHANGED <<registry, navs, uploads, urls, nextUrl, now, nRuns>>

rasterRejected(i, cause) ==
  /\ runs[i].pc = "raster"
  /\ runRejected(i, PdfPageMsg(runs[i].pageNum, cause))

providerRejected(i, msg) ==
  /\ runs[i].pc = "provider"
  /\ runRejected(i, msg)

\* a last set() that leaves the flag and the progress marker as they are
finishRunBusy(i, run) ==
  /\ extractedData' = finalDataOf(run.formTitle, run.allFields, now)
  /\ history' = pushHistory(
        historyEntryOf(run.currentForm, run.selectedProvider, run.formTitle,
                       run.allFields, now),
        history)
  /\ runs' = Remove(runs, i)
  /\ outcome' = RunEvent("extractFields", run)
  /\ UNCHANGED <<currentForm, originalFile, imagePreview, isPDF, currentPage,
                 totalPages, error, selectedProvider, processing, processingPage>>

\* the last set() of extractFields and its return (lines 171-197)
finishRun(i, run) ==
  LET formTitle == run.formTitle
      allFields == run.allFields IN
  /\ extractedData' = finalDataOf(formTitle, allFields, now)
  /\ processing' = FALSE
  /\ processingPage' = NullPage
  /\ history' = pushHistory(
        historyEntryOf(run.currentForm, run.selectedProvider, formTitle, allFields, now),
        history)
  /\ runs' = Remove(runs, i)
  /\ outcome' = RunEvent("extractFields", run)
  /\ UNCHANGED <<currentForm, originalFile, imagePreview, isPDF, currentPage,
                 totalPages, error, selectedProvider>>

\* an invocation resumes with the provider's answer for its page
providerResolved(i, rawData) ==
  LET run == runs[i]
      formattedData == formatExtractedData(rawData, run.pageNum)
      fieldsWithPage == withPage(formattedData.fields, run.pageNum)
      multi == isMultiPage(run.isPDF, run.totalPages, run.originalFile)
      \* the local variables after this page
      ran == [run EXCEPT
                !.formTitle = IF multi
                              THEN pageTitle(run.pageNum, @, formattedData.formTitle)
                              ELSE formattedData.formTitle,
                !.allFields = IF multi THEN mergeFields(@, fieldsWithPage)
                              ELSE fieldsWithPage,
                !.resp = Append(@, rawData)]
  IN
  /\ run.pc = "provider"
  /\ IF multi /\ run.pageNum < run.totalPages
     THEN \* publish, then the next turn of the loop up to its await
          /\ extractedData' = pageData(ran.formTitle, ran.allFields, extractedData, now)
          /\ processingPage' = run.pageNum + 1
          /\ runs' = [runs EXCEPT ![i] = [ran EXCEPT !.pc = "raster", !.pageNum = @ + 1]]
          /\ outcome' = RunEvent("page", ran)
          /\ UNCHANGED <<currentForm, originalFile, imagePreview, isPDF,
                         currentPage, totalPages, processing, error, history,
                         selectedProvider>>
     ELSE \* the only page, or the last one: its publish is overwritten at once
          \* by the final set()
          finishRun(i, ran)
  /\ UNCHANGED <<registry, navs, uploads, urls, nextUrl, now, nRuns>>

(***************************************************************************)
(* goToPage, clearForm, reset                                              *)
(***************************************************************************)
\* goToPage(pageNumber), up to its await
goToPage(pageNumber) ==
  IF ~isPDF \/ originalFile = Null
  THEN /\ outcome' = Threw("goToPage", NotAPdfMsg)
       /\ UNCHANGED <<registry, store, pending, urls, nextUrl, now, nRuns>>
  ELSE IF pageNumber < 1 \/ pageNumber > totalPages
  THEN /\ outcome' = Threw("goToPage", InvalidPageMsg(totalPages))
       /\ UNCHANGED <<registry, store, pending, urls, nextUrl, now, nRuns>>
  ELSE \* suspended at await convertPDFPageToImage(originalFile, pageNumber)
       /\ UrlBudget
       /\ Len(navs) < MaxPending
       /\ processing' = TRUE
       /\ navs' = Append(navs, [originalFile |-> originalFile, pageNumber |-> pageNumber])
       /\ UNCHANGED <<registry, session, error, history, selectedProvider,
                      processingPage, runs, uploads, urls, nextUrl, now, nRuns, outcome>>

\* URL.revokeObjectURL(imagePreview) when imagePreview is set
revoked(live, preview) == IF preview # Null THEN live \ {preview} ELSE live

\* goToPage resumes with the page image
navResolved(i) ==
  LET nav == navs[i] IN
  /\ nextUrl' = nextUrl + 1
  /\ urls' = revoked(urls \cup {Url(nextUrl + 1)}, imagePreview)
  /\ currentForm' = PageFile(nav.originalFile, nav.pageNumber)
  /\ imagePreview' = Url(nextUrl + 1)
  /\ currentPage' = nav.pageNumber
  /\ processing' = FALSE
  /\ navs' = Remove(navs, i)
  /\ outcome' = Returned("goToPage")
  /\ UNCHANGED <<registry, originalFile, extractedData, isPDF, totalPages, error,
                 history, selectedProvider, processingPage, runs, uploads, now, nRuns>>

\* goToPage resumes with an exception of convertPDFPageToImage
navRejected(i, cause) ==
  /\ processing' = FALSE
  /\ navs' = Remove(navs, i)
  /\ outcome' = Threw("goToPage", PdfPageMsg(navs[i].pageNumber, cause))
  /\ UNCHANGED <<registry, session, error, history, selectedProvider, processingPage,
                 runs, uploads, urls, nextUrl, now, nRuns>>

\* a clearForm that also empties the history
clearFormAll ==
  /\ urls' = revoked(urls, imagePreview)
  /\ currentForm' = Null
  /\ originalFile' = Null
  /\ extractedData' = Null
  /\ imagePreview' = Null
  /\ error' = NoError
  /\ isPDF' = FALSE
  /\ currentPage' = 1
  /\ totalPages' = 1
  /\ processingPage' = NullPage
  /\ history' = <<>>
  /\ outcome' = Returned("clearForm")
  /\ UNCHANGED <<registry, processing, selectedProvider, pending, nextUrl, now, nRuns>>

\* clearForm()
clearForm ==
  /\ urls' = revoked(urls, imagePreview)
  /\ currentForm' = Null
  /\ originalFile' = Null
  /\ extractedData' = Null
  /\ imagePreview' = Null
  /\ error' = NoError
  /\ isPDF' = FALSE
  /\ currentPage' = 1
  /\ totalPages' = 1
  /\ processingPage' = NullPage
  /\ outcome' = Returned("clearForm")
  /\ UNCHANGED <<registry, processing, history, selectedProvider, pending, nextUrl,
                 now, nRuns>>

\* reset()
reset ==
  /\ urls' = revoked(urls, imagePreview)
  /\ currentForm' = Null
  /\ originalFile' = Null
  /\ extractedData' = Null
  /\ processing' = FALSE
  /\ error' = NoError
  /\ history' = <<>>
  /\ imagePreview' = Null
  /\ isPDF' = FALSE
  /\ currentPage' = 1
  /\ totalPages' = 1
  /\ processingPage' = NullPage
  /\ outcome' = Returned("reset")
  /\ UNCHANGED <<registry, selectedProvider, pending, nextUrl, now, nRuns>>

(***************************************************************************)
(* The field operations of the store: updateField, toggleFieldVerification, *)
(* deleteField, addField.  Each is one synchronous set().                  *)
(***************************************************************************)
\* confidence: 1.0 of a field added by hand, in hundredths like DefaultConfidence
ManualConfidence == 100

\* state.extractedData.fields when extractedData is null
NullFieldsMsg == <<"TypeError: Cannot read properties of null (reading 'fields')">>

\* obj[key] of an object that may lack the key
GetStr(obj, key) == IF Has(obj, key) THEN obj[key] ELSE Undefined
GetNum(obj, key) == IF Has(obj, key) THEN obj[key] ELSE 0

\* the last field call that settled: its arguments, and the extractedData and
\* currentPage it found
FieldEvent(op, err, args) ==
  [op |-> op, err |-> err, args |-> args, was |-> extractedData, page |-> currentPage]

\* what a field operation leaves alone
fieldFrame ==
  UNCHANGED <<registry, currentForm, originalFile, imagePreview, isPDF, currentPage,
              totalPages, processing, error, history, selectedProvider,
              processingPage, pending, urls, nextUrl, now, nRuns>>

\* set(state => ({ extractedData: { ...state.extractedData, fields } })), where
\* fields is computed from state.extractedData.fields
setFields(op, args, fields) ==
  /\ IF extractedData = Null
     THEN /\ outcome' = FieldEvent(op, NullFieldsMsg, args)
          /\ UNCHANGED extractedData
     ELSE /\ extractedData' = [extractedData EXCEPT !.fields = fields]
          /\ outcome' = FieldEvent(op, NoError, args)
  /\ fieldFrame

\* { ...field, ...updates, verified: true }
updatedField(field, updates) ==
  [k \in DOMAIN field \cup DOMAIN updates \cup {"verified"} |->
     IF k = "verified" THEN TRUE
     ELSE IF k \in DOMAIN updates THEN updates[k]
     ELSE field[k]]

\* fields.map(field => field.id === fieldId ? {...field, ...updates, verified: true} : field)
updateFields(fields, fieldId, updates) ==
  [j \in 1..Len(fields) |->
     IF fields[j].id = fieldId THEN updatedField(fields[j], updates) ELSE fields[j]]

\* updateField(fieldId, updates)
updateField(fieldId, updates) ==
  setFields("updateField", [fieldId |-> fieldId, updates |-> updates],
            updateFields(extractedData.fields, fieldId, updates))

\* fields.map(field => field.id === fieldId ? {...field, verified: !field.verified} : field)
toggleFields(fields, fieldId) ==
  [j \in 1..Len(fields) |->
     IF fields[j].id = fieldId
     THEN [fields[j] EXCEPT !.verified = ~@]
     ELSE fields[j]]

\* toggleFieldVerification(fieldId)
toggleFieldVerification(fieldId) ==
  setFields("toggleFieldVerification", [fieldId |-> fieldId],
            toggleFields(extractedData.fields, fieldId))

\* fields.filter(field => field.id !== fieldId)
filterFields(fields, fieldId) == SelectSeq(fields, LAMBDA field : field.id # fieldId)

\* deleteField(fieldId)
deleteField(fieldId) ==
  setFields("deleteField", [fieldId |-> fieldId],
            filterFields(extractedData.fields, fieldId))

\* a page number that ignores fieldData.page
addPageNumCurrent(fieldData, page) == OrNum(page, 1)

\* const pageNum = fieldData.page || currentPage || 1
addPageNum(fieldData, page) == OrNum(GetNum(fieldData, "page"), OrNum(page, 1))

\* const newField = { id, label, value, type, confidence: 1.0, verified: true, page }
newFieldOf(fieldData, pageNum, time) ==
  [id |-> <<"field", Epoch + time, pageNum>>,
   label |-> OrStr(GetStr(fieldData, "label"), "New Field"),
   value |-> OrStr(GetStr(fieldData, "value"), ""),
   type |-> OrStr(GetStr(fieldData, "type"), "text"),
   confidence |-> ManualConfidence,
   verified |-> TRUE,
   page |-> pageNum]

\* addField(fieldData); cap bounds the fields of the collection explored
addField(fieldData, cap) ==
  /\ extractedData # Null => Len(extractedData.fields) < cap
  /\ setFields("addField", [fieldData |-> fieldData],
               extractedData.fields
                 \o <<newFieldOf(fieldData, addPageNum(fieldData, currentPage), now)>>)

(***************************************************************************)
(* Export.  A text is the sequence of its pieces: the characters that      *)
(* matter to a delimited table (quote, comma, line break) are pieces of    *)
(* their own, any other run of characters is one piece.                    *)
(***************************************************************************)
Quote == "\""
Comma == ","
LineBreak == "\n"

\* a value with a quote and a line break in it: 5" <line break> 6
InchesValue == "5\"\n6"

\* String(text) in pieces
Pieces(text) ==
  CASE text = "" -> <<>>
    [] text = Undefined -> <<"undefined">>
    [] text = InchesValue -> <<"5", Quote, LineBreak, "6">>
    [] OTHER -> <<text>>

\* String(confidence), the confidence being kept in hundredths
ConfidenceText(confidence) ==
  CASE confidence = 0 -> "0"
    [] confidence = 80 -> "0.8"
    [] confidence = 95 -> "0.95"
    [] confidence = 100 -> "1"
    [] OTHER -> "0.5"

\* const headers = ['Label', 'Value', 'Type', 'Confidence', 'Verified']
headers == <<"Label", "Value", "Type", "Confidence", "Verified">>

\* [field.label, field.value, field.type, field.confidence, field.verified ? 'Yes' : 'No']
csvRow(field) ==
  <<Pieces(field.label), Pieces(field.value), Pieces(field.type),
    <<ConfidenceText(field.confidence)>>, <<IF field.verified THEN "Yes" ELSE "No">>>>

RECURSIVE joinTexts(_, _)
\* texts.join(separator)
joinTexts(texts, separator) ==
  IF texts = <<>> THEN <<>>
  ELSE IF Len(texts) = 1 THEN texts[1]
  ELSE texts[1] \o <<separator>> \o joinTexts(Tail(texts), separator)

\* row.map(cell => `"${cell}"`).join(',')
csvLine(row) ==
  joinTexts([j \in 1..Len(row) |-> <<Quote>> \o row[j] \o <<Quote>>], Comma)

\* FormProcessingService.exportToCSV(formData)
exportToCSV(formData) ==
  IF ~Has(formData, "fields") \/ Len(formData.fields) = 0
  THEN <<"No data to export">>
  ELSE joinTexts(
         <<joinTexts([j \in 1..Len(headers) |-> <<headers[j]>>], Comma)>>
           \o [j \in 1..Len(formData.fields) |-> csvLine(csvRow(formData.fields[j]))],
         LineBreak)

\* FormProcessingService.exportToJSON(formData): the text of that object
exportToJSON(formData) == <<"JSON", formData>>

\* the last export: the data it was given and the text it produced
Exported(op, format, data, content) ==
  [op |-> op, err |-> NoError, format |-> format, data |-> data, content |-> content]

\* what an export leaves alone: everything (downloadFile makes an object URL and
\* revokes it before it returns)
exportFrame == UNCHANGED <<registry, store, pending, urls, nextUrl, now, nRuns>>

\* exportData(format)
exportData(format) ==
  /\ IF extractedData = Null
     THEN outcome' = Threw("exportData", <<"No data to export">>)
     ELSE outcome' = Exported("exportData", format, extractedData,
                       IF format = "json" THEN exportToJSON(extractedData)
                       ELSE exportToCSV(extractedData))
  /\ exportFrame

\* FormProcessingService.exportToCSV(formData), called on its own
exportToCSVCall(formData) ==
  /\ outcome' = Exported("exportToCSV", "csv", formData, exportToCSV(formData))
  /\ exportFrame

(***************************************************************************)
(* The backends: GeminiService, OpenAIService and ClaudeService, from the   *)
(* decoded HTTP answer on.  A model's text is the sequence of its pieces:   *)
(* braces, brackets, commas and code fences are pieces of their own.        *)
(***************************************************************************)
\* the opening and the closing line of a markdown code block (three backticks)
FenceJson == "<fence>json"
Fence == "<fence>"

\* what the model would say in full: the JSON document in a code fence
FullText ==
  <<FenceJson, "{", "\"fields\":", "[", "{", "\"label\":\"Name\"", "}", ",",
    "{", "\"label\":\"Age\"", "}", "]", "}", Fence>>

\* the finish-reason signal of an answer that was cut at the token limit, and of
\* one the model ended itself (finish_reason 'length' / 'stop' of OpenAI,
\* stop_reason 'max_tokens' / 'end_turn' of Claude)
FinishReasons == {"STOP", "MAX_TOKENS"}

\* the answers of the HTTP API: the model's text up to some piece and the signal
Replies ==
  {[finishReason |-> reason, text |-> SubSeq(FullText, 1, n)] :
     reason \in FinishReasons, n \in 0..Len(FullText)}

\* the label a member piece of a field object gives
LabelOf(piece) ==
  CASE piece = "\"label\":\"Name\"" -> "Name"
    [] piece = "\"label\":\"Age\"" -> "Age"
    [] OTHER -> Undefined

RECURSIVE parseItems(_, _, _)
\* JSON.parse inside the fields array, from piece i on: the document when the
\* array and the object close properly at the end of the text, Null on a syntax
\* error
parseItems(text, i, items) ==
  IF i > Len(text) THEN Null
  ELSE IF text[i] = "]" /\ (i = 4 \/ text[i - 1] = "}")
    THEN IF i + 1 = Len(text) /\ text[i + 1] = "}" THEN [fields |-> items] ELSE Null
  ELSE IF text[i] = "," /\ text[i - 1] = "}" THEN parseItems(text, i + 1, items)
  ELSE IF /\ text[i] = "{"
          /\ text[i - 1] \in {"[", ","}
          /\ i + 2 <= Len(text)
          /\ LabelOf(text[i + 1]) # Undefined
          /\ text[i + 2] = "}"
    THEN parseItems(text, i + 3, Append(items, [label |-> LabelOf(text[i + 1])]))
  ELSE Null

\* JSON.parse(text): the value, or Null when it throws a SyntaxError
JSONparse(text) ==
  IF Len(text) >= 3 /\ text[1] = "{" /\ text[2] = "\"fields\":" /\ text[3] = "["
  THEN parseItems(text, 4, <<>>)
  ELSE Null

\* text.match(/\{[\s\S]*\}/): from the first opening brace to the last closing
\* one, <<>> when there is no match
matchBraces(text) ==
  LET opens == {j \in DOMAIN text : text[j] = "{"}
      closes == {j \in DOMAIN text : text[j] = "}"}
      first == CHOOSE j \in opens : \A h \in opens : j <= h
      last == CHOOSE j \in closes : \A h \in closes : h <= j
  IN IF opens = {} \/ closes = {} THEN <<>>
     ELSE IF first < last THEN SubSeq(text, first, last) ELSE <<>>

\* what a backend's extractFormFields settles with
Parsed(value) == [err |-> NoError, data |-> value]
Failed(msg) == [err |-> msg]

SyntaxErrorMsg == <<"SyntaxError: JSON.parse">>
NoFormDataMsg == <<"Could not parse form data from AI response">>

\* GeminiService.parseJsonFromResponse(content), for a content without code fences
parseJsonFromResponse(content) ==
  LET jsonMatch == matchBraces(content) IN
  IF jsonMatch = <<>> THEN Failed(<<"Could not find JSON in AI response">>)
  ELSE IF JSONparse(jsonMatch) = Null
    THEN Failed(<<"Could not parse JSON from AI response">>)
  ELSE Parsed(JSONparse(jsonMatch))

\* .replace(/```json/g, "").replace(/```/g, "")
withoutFences(text) == SelectSeq(text, LAMBDA piece : piece \notin {FenceJson, Fence})

\* GeminiService.extractFormFields, from `const data = await response.json()` on
GeminiExtract(reply) ==
  IF reply.finishReason # "STOP"
  THEN Failed(<<"Gemini API request finished with ", reply.finishReason>>)
  ELSE LET content == withoutFences(reply.text) IN
       IF content = <<>> THEN Failed(<<"Empty response from Gemini API">>)
       ELSE parseJsonFromResponse(content)

\* the tail OpenAIService and ClaudeService share: match, JSON.parse, or throw
parseMatched(content) ==
  LET jsonMatch == matchBraces(content) IN
  IF jsonMatch = <<>> THEN Failed(NoFormDataMsg)
  ELSE IF JSONparse(jsonMatch) = Null THEN Failed(SyntaxErrorMsg)
  ELSE Parsed(JSONparse(jsonMatch))

\* OpenAIService.extractFormFields, from `const data = await response.json()` on
OpenAIExtract(reply) == parseMatched(reply.text)

\* ClaudeService.extractFormFields, from `const data = await response.json()` on
ClaudeExtract(reply) ==
  IF reply.text = <<>> THEN Failed(<<"No response from Claude API">>)
  ELSE parseMatched(reply.text)

\* this.providers[key].service.extractFormFields(imageFile), given the API's answer
serviceExtract(key, reply) ==
  CASE key = "gemini" -> GeminiExtract(reply)
    [] key = "claude" -> ClaudeExtract(reply)
    [] OTHER -> OpenAIExtract(reply)

\* the provider whose backend an invocation is waiting for
awaited(run) == run.used[Len(run.used)].provider

\* the HTTP API answers the backend an invocation waits for; the backend settles
\* and extractFields resumes with its value or its exception
backendReplied(i, reply) ==
  LET settled == serviceExtract(awaited(runs[i]), reply) IN
  /\ runs[i].pc = "provider"
  /\ IF settled.err # NoError
     THEN providerRejected(i, settled.err)
     ELSE providerResolved(i, settled.data)

(***************************************************************************)
(* The page is loaded again: the modules are evaluated anew, persist       *)
(* restores what partialize kept (history and selectedProvider), and every *)
(* suspended invocation and object URL of the old page is gone.            *)
(***************************************************************************)
reload ==
  /\ currentProvider' = getDefaultProvider(configured)
  /\ currentForm' = Null
  /\ originalFile' = Null
  /\ extractedData' = Null
  /\ processing' = FALSE
  /\ error' = NoError
  /\ imagePreview' = Null
  /\ isPDF' = FALSE
  /\ currentPage' = 1
  /\ totalPages' = 1
  /\ processingPage' = NullPage
  /\ runs' = <<>>
  /\ navs' = <<>>
  /\ uploads' = <<>>
  /\ urls' = {}
  /\ outcome' = Returned("load")
  /\ UNCHANGED <<configured, history, selectedProvider, nextUrl, now, nRuns>>

(***************************************************************************)
(* Specifications.  Each lets any caller call in any order and resumes the *)
(* suspended invocations in any order; they differ in the part of the      *)
(* program whose inputs they vary.                                         *)
(*                                                                         *)
(* Spec: the document session and the extraction pipeline.  The provider   *)
(* is the default one, with every API key set or none.                     *)
(***************************************************************************)
Init == InitWith({{}, KnownProviders})

Next ==
  \/ \E file \in Files : uploadForm(file)
  \/ \E i \in DOMAIN uploads : uploadResolved(i)
  \/ \E i \in DOMAIN uploads, cause \in RasterErrors : uploadRejected(i, PdfMsg(cause))
  \/ extractFieldsCall(MaxRuns)
  \/ \E i \in DOMAIN runs : rasterResolved(i)
  \/ \E i \in DOMAIN runs, cause \in RasterErrors : rasterRejected(i, cause)
  \/ \E i \in DOMAIN runs, rawData \in RawResponses : providerResolved(i, rawData)
  \/ \E i \in DOMAIN runs, msg \in ProviderErrors : providerRejected(i, msg)
  \/ \E pageNumber \in 0..MaxPages + 1 : goToPage(pageNumber)
  \/ \E i \in DOMAIN navs : navResolved(i)
  \/ \E i \in DOMAIN navs, cause \in RasterErrors : navRejected(i, cause)
  \/ clearForm
  \/ reset
  \/ reload

Spec == Init /\ [][Next]_vars

(***************************************************************************)
(* SpecProviders: the provider registry.  Any set of API keys, any key     *)
(* given to setProvider, reloads; one document and one extraction.         *)
(***************************************************************************)
InitProviders == InitWith(SUBSET KnownProviders)

NextProviders ==
  \/ \E key \in SomeKeys : setProvider(key)
  \/ reload
  \/ /\ nextUrl < MaxProviderUploads
     /\ \E file \in {ImageFile, PdfFile(MaxPages)} : uploadForm(file)
  \/ \E i \in DOMAIN uploads : uploadResolved(i)
  \/ extractFieldsCall(MaxProviderRuns)
  \/ \E i \in DOMAIN runs : rasterResolved(i)
  \/ \E i \in DOMAIN runs : providerResolved(i, RespInvoice)
  \/ \E i \in DOMAIN runs, msg \in ProviderErrors : providerRejected(i, msg)

SpecProviders == InitProviders /\ [][NextProviders]_vars

(***************************************************************************)
(* SpecHistory: the history list.  One image, many extractions one after   *)
(* the other, the clock running.                                           *)
(***************************************************************************)
InitHistory == InitWith({KnownProviders})

NextHistory ==
  \/ Tick
  \/ /\ nextUrl < MaxHistoryUploads
     /\ uploadForm(ImageFile)
  \/ /\ runs = <<>>
     /\ extractFieldsCall(MaxHistoryRuns)
  \/ \E i \in DOMAIN runs, rawData \in {RespInvoice, RespUntitled} :
        providerResolved(i, rawData)
  \/ \E i \in DOMAIN runs, msg \in ProviderErrors : providerRejected(i, msg)
  \/ reload

SpecHistory == InitHistory /\ [][NextHistory]_vars

(***************************************************************************)
(* SpecFields: the field collection.  One PDF, one extraction, and the     *)
(* field operations in any order, before, during and after the run, with   *)
(* page navigation and clearForm; all within one reading of the clock.     *)
(***************************************************************************)
\* an id no field ever had
MissingId == <<"field", 9, 9>>

\* the ids offered to the field operations: those of the collection and a missing one
FieldIds ==
  {MissingId} \cup
  (IF extractedData = Null THEN {}
   ELSE {extractedData.fields[j].id : j \in 1..Len(extractedData.fields)})

\* the updates offered to updateField
Updates == {[value |-> "42"], [label |-> ""]}

\* the field data offered to addField
FieldDatas ==
  {[label |-> "Email"],
   [label |-> "Phone", value |-> "555", type |-> "tel", page |-> MaxPages],
   [label |-> "", page |-> MaxPages + 1],
   [label |-> "Zip", page |-> 0]}

InitFields == InitWith({KnownProviders})

NextFields ==
  \/ /\ nextUrl < MaxFieldUploads
     /\ uploadForm(PdfFile(MaxPages))
  \/ \E i \in DOMAIN uploads : uploadResolved(i)
  \/ /\ runs = <<>>
     /\ extractFieldsCall(MaxFieldRuns)
  \/ \E i \in DOMAIN runs : rasterResolved(i)
  \/ \E i \in DOMAIN runs : providerResolved(i, RespInvoice)
  \/ goToPage(MaxPages)
  \/ \E i \in DOMAIN navs : navResolved(i)
  \/ clearForm
  \/ \E fieldId \in FieldIds, updates \in Updates : updateField(fieldId, updates)
  \/ \E fieldId \in FieldIds : toggleFieldVerification(fieldId)
  \/ \E fieldId \in FieldIds : deleteField(fieldId)
  \/ \E fieldData \in FieldDatas : addField(fieldData, MaxFields)

SpecFields == InitFields /\ [][NextFields]_vars

(***************************************************************************)
(* SpecExport: the export.  One image, extractions whose answers have no   *)
(* field, plain fields or a value with a quote and a line break, deletes   *)
(* and toggles, and exports of what is in the store.                       *)
(***************************************************************************)
\* an answer whose field value has a quote and a line break in it
RespInches == [formTitle |-> "Order", fields |-> <<[label |-> "Size", value |-> InchesValue]>>]

InitExport == InitWith({KnownProviders})

NextExport ==
  \/ /\ nextUrl < MaxExportUploads
     /\ uploadForm(ImageFile)
  \/ /\ runs = <<>>
     /\ extractFieldsCall(MaxExportRuns)
  \/ \E i \in DOMAIN runs, rawData \in {RespUntitled, RespNoFields, RespInches} :
        providerResolved(i, rawData)
  \/ \E fieldId \in FieldIds : toggleFieldVerification(fieldId)
  \/ \E fieldId \in FieldIds : deleteField(fieldId)
  \/ \E format \in {"csv", "json"} : exportData(format)
  \/ \E formData \in {[formTitle |-> "Receipt"], [formTitle |-> "Receipt", fields |-> <<>>]} :
        exportToCSVCall(formData)

SpecExport == InitExport /\ [][NextExport]_vars

(***************************************************************************)
(* SpecBackends: the three backends.  Every provider has its API key, any   *)
(* of them is selected, and the API answers an extraction of a document     *)
(* with any piece-wise beginning of the model's text and either signal.     *)
(***************************************************************************)
InitBackends == InitWith({KnownProviders})

NextBackends ==
  \/ \E key \in KnownProviders : setProvider(key)
  \/ /\ nextUrl < MaxBackendUploads
     /\ \E file \in {ImageFile, PdfFile(MaxPages)} : uploadForm(file)
  \/ \E i \in DOMAIN uploads : uploadResolved(i)
  \/ runs = <<>> /\ extractFieldsCall(MaxBackendRuns)
  \/ \E i \in DOMAIN runs : rasterResolved(i)
  \/ \E i \in DOMAIN runs, reply \in Replies : backendReplied(i, reply)

SpecBackends == InitBackends /\ [][NextBackends]_vars

(***************************************************************************)
(* SpecLive: the page stays loaded, and every rasterization and every       *)
(* provider call that an extraction waits for is answered in the end, with  *)
(* a value or with an exception.                                            *)
(***************************************************************************)
InitLive == InitWith({{}, KnownProviders})

\* a suspended extractFields invocation is resumed
Settle ==
  \/ \E i \in DOMAIN runs : rasterResolved(i)
  \/ \E i \in DOMAIN runs, cause \in RasterErrors : rasterRejected(i, cause)
  \/ \E i \in DOMAIN runs, rawData \in {RespInvoice, RespNoFields} : providerResolved(i, rawData)
  \/ \E i \in DOMAIN runs, msg \in ProviderErrors : providerRejected(i, msg)

NextLive ==
  \/ /\ nextUrl < MaxLiveUploads
     /\ \E file \in {ImageFile, PdfFile(MaxPages)} : uploadForm(file)
  \/ \E i \in DOMAIN uploads : uploadResolved(i)
  \/ extractFieldsCall(MaxLiveRuns)
  \/ Settle
  \/ clearForm

SpecLive == InitLive /\ [][NextLive]_vars /\ WF_vars(Settle)

(***************************************************************************)
(* Properties.                                                             *)
(***************************************************************************)
\* the last step settled an extractFields invocation with an exception
RunFailed == outcome.op = "extractFields" /\ outcome.err # NoError /\ Has(outcome, "run")
\* the last step settled an extractFields invocation that returned finalData
RunCompleted == outcome.op = "extractFields" /\ outcome.err = NoError
\* the last step published a page of a multi-page extraction that goes on
PagePublished == outcome.op = "page"

\* the number of fields a provider answer holds
FieldCount(rawData) == IF Has(rawData, "fields") THEN Len(rawData.fields) ELSE 0

RECURSIVE PagesUpTo(_, _)
\* the fields mapped from the answers for pages 1..p, each tagged with its page,
\* in page order
PagesUpTo(resp, p) ==
  IF p = 0 THEN <<>>
  ELSE PagesUpTo(resp, p - 1) \o withPage(formatExtractedData(resp[p], p).fields, p)

RECURSIVE CountUpTo(_, _)
\* the sum of the field counts of the answers for pages 1..p
CountUpTo(resp, p) ==
  IF p = 0 THEN 0 ELSE CountUpTo(resp, p - 1) + FieldCount(resp[p])

\* the pages of the document an invocation works on
PagesOf(run) ==
  IF isMultiPage(run.isPDF, run.totalPages, run.originalFile) THEN run.totalPages ELSE 1

\* extractedData?.fields, the published field collection
PublishedFields == IF extractedData = Null THEN <<>> ELSE extractedData.fields

\* a title as the caller sees it: absent and empty are both no title
TitleText(t) == IF t = Undefined THEN "" ELSE t

\* an error message holds a piece of text
Contains(msg, piece) == \E j \in 1..Len(msg) : msg[j] = piece

\* the first provider of the priority order that is configured, or fallback when
\* none is
FirstConfiguredOr(fallback) ==
  IF \E j \in 1..Len(priorityOrder) : priorityOrder[j] \in configured
  THEN priorityOrder[CHOOSE j \in 1..Len(priorityOrder) :
                       /\ priorityOrder[j] \in configured
                       /\ \A h \in 1..(j - 1) : priorityOrder[h] \notin configured]
  ELSE fallback

\* C1: at most one extraction pipeline is in flight in any reachable state (a call of
\* extractFields made while one is running is rejected and starts no second loop).
C1_AtMostOnePipeline == Len(runs) <= 1

\* C2: when the rasterization or the provider call for page k fails, the published
\* field collection holds exactly the fields of pages 1..k-1 of the run, and the run
\* has received no answer and made no provider call for a page after k.
C2_FailureKeepsPublished ==
  RunFailed =>
    LET run == outcome.run
        k == run.pageNum IN
    /\ PublishedFields = PagesUpTo(run.resp, k - 1)
    /\ Len(run.resp) = k - 1
    /\ Len(run.used) \in {k - 1, k}

\* C3: immediately after page p of a multi-page extraction completes, extractedData
\* .fields is exactly the fields mapped from the answers for pages 1..p, in page
\* order, each tagged with its page: after page 1 only page-1 entries, after the
\* last page (the final data) those of all pages.
C3_IncrementalPublish ==
  /\ PagePublished =>
       LET run == outcome.run IN
       /\ extractedData # Null
       /\ Len(run.resp) = run.pageNum
       /\ extractedData.fields = PagesUpTo(run.resp, run.pageNum)
       /\ \A j \in 1..Len(extractedData.fields) : extractedData.fields[j].page <= run.pageNum
  /\ (RunCompleted /\ PagesOf(outcome.run) > 1) =>
       /\ extractedData # Null
       /\ extractedData.fields = PagesUpTo(outcome.run.resp, PagesOf(outcome.run))

\* page 1 of a two-page run is published, with page-1 fields only, and the run goes on
C3_Witness ==
  /\ PagePublished
  /\ outcome.run.pageNum = 1
  /\ outcome.run.totalPages = 2
  /\ extractedData # Null
  /\ Len(extractedData.fields) > 0
  /\ \A j \in 1..Len(extractedData.fields) : extractedData.fields[j].page = 1
  /\ Len(runs) > 0

\* C4: after a fully successful run over an N-page document, the number of merged
\* fields is the sum of the per-page field counts the provider returned (an answer
\* without a fields array counts 0), one answer per page, and every field's page is
\* in 1..N.
C4_MergedCount ==
  RunCompleted =>
    LET run == outcome.run
        N == PagesOf(run) IN
    /\ extractedData # Null
    /\ Len(run.resp) = N
    /\ Len(extractedData.fields) = CountUpTo(run.resp, N)
    /\ \A j \in 1..Len(extractedData.fields) : extractedData.fields[j].page \in 1..N

\* a two-page run completed whose pages returned different numbers of fields
C4_Witness ==
  /\ RunCompleted
  /\ PagesOf(outcome.run) = 2
  /\ FieldCount(outcome.run.resp[1]) # FieldCount(outcome.run.resp[2])
  /\ FieldCount(outcome.run.resp[1]) > 0
  /\ extractedData # Null
  /\ Len(extractedData.fields) = 3

\* C5: in every published state of a run, partial and final, the title of
\* extractedData is the title of this run's page-1 result, whatever later pages
\* report and whatever title an earlier run left in the store.
C5_TitleFromPageOne ==
  (PagePublished \/ RunCompleted) =>
    /\ extractedData # Null
    /\ TitleText(extractedData.formTitle)
         = TitleText(formatExtractedData(outcome.run.resp[1], 1).formTitle)

\* the step that changes the history puts one entry in front of the others and
\* drops the last one when the list was full
C6_HistoryStep ==
  history' # history =>
    /\ Len(history') = IF Len(history) < HistoryLimit THEN Len(history) + 1 ELSE HistoryLimit
    /\ \A j \in 2..Len(history') : history'[j] = history[j - 1]
    /\ \A j \in 2..Len(history') : history'[1].extractedAt >= history'[j].extractedAt

\* the list holds at most 10 entries, the more recent ones first
C6_HistoryState ==
  /\ Len(history) <= HistoryLimit
  /\ \A j \in 1..Len(history) : \A h \in j..Len(history) :
       history[j].extractedAt >= history[h].extractedAt

\* C6: the history never holds more than 10 entries, however many extractions run;
\* its entries are ordered most recent first, and an entry added to a full list
\* drops the oldest one (the last).
C6_HistoryBounded == []C6_HistoryState /\ [][C6_HistoryStep]_vars

\* an eleventh extraction completed on a full history, pushing out an entry that
\* differs from the one before it
C6_Witness ==
  /\ RunCompleted
  /\ nRuns = MaxHistoryRuns
  /\ Len(history) = HistoryLimit
  /\ history[1].extractedAt > history[HistoryLimit].extractedAt
  /\ history[1].fieldsCount # history[2].fieldsCount

\* C7: a successful run adds a history entry that records the document's filename,
\* the number of fields of the final extracted data, the run's formTitle and the
\* name of the provider that was used for the run's calls.
C7_HistoryEntry ==
  RunCompleted =>
    LET run == outcome.run IN
    /\ Len(history) >= 1
    /\ history[1].filename = run.currentForm.name
    /\ extractedData # Null
    /\ history[1].fieldsCount = Len(extractedData.fields)
    /\ history[1].formTitle = extractedData.formTitle
    /\ \A c \in 1..Len(run.used) : history[1].provider = ProviderName(run.used[c].provider)

\* C8: setProvider with a key outside the known providers throws the unknown-provider
\* error and that key becomes the active provider neither in the registry nor in
\* the store.
C8_UnknownProviderRejected ==
  (outcome.op = "setProvider" /\ outcome.key \notin KnownProviders) =>
    /\ outcome.err = UnknownProviderMsg(outcome.key)
    /\ currentProvider # outcome.key
    /\ selectedProvider # outcome.key

\* C9 as the specification words it: the default provider is the first configured
\* one of the priority order and, when none is configured, the first entry of that
\* order.
C9_DefaultFirstOfOrder ==
  outcome.op = "load" => currentProvider = FirstConfiguredOr(priorityOrder[1])

\* C9: the default provider is the first configured one of the priority order
\* gemini, gpt-4o, claude and, when none is configured, gpt-4o (the second entry of
\* that order, the first of the provider table).
C9_DefaultProvider ==
  outcome.op = "load" => currentProvider = FirstConfiguredOr("gpt-4o")

\* the page was loaded again with no provider configured, after another provider
\* had been selected: the registry is back on gpt-4o
C9_Witness ==
  /\ outcome.op = "load"
  /\ configured = {}
  /\ currentProvider = "gpt-4o"
  /\ selectedProvider = "claude"

\* C10: a call of extractFormFields made while the active provider, one of the
\* table, is not configured never reaches the backend; it is the run's last call
\* and the run fails with the not-configured message, which holds the provider's name.
C10_NotConfigured ==
  Has(outcome, "run") =>
    LET used == outcome.run.used IN
    \A c \in 1..Len(used) :
      (used[c].provider \in KnownProviders /\ ~isConfigured(used[c].provider)) =>
        /\ ~used[c].invoked
        /\ c = Len(used)
        /\ RunFailed
        /\ outcome.err = NotConfiguredMsg(ProviderName(used[c].provider))
        /\ Contains(outcome.err, ProviderName(used[c].provider))
        /\ Len(outcome.run.resp) = c - 1

\* a two-page run whose provider was switched to an unconfigured one after page 1
\* failed on its second call
C10_Witness ==
  /\ RunFailed
  /\ Len(outcome.run.used) = 2
  /\ outcome.run.used[1].invoked
  /\ ~outcome.run.used[2].invoked
  /\ ~isConfigured(outcome.run.used[2].provider)
  /\ Contains(error, ProviderName(outcome.run.used[2].provider))

\* C11: an extraction run over a single-page document (an image, or a PDF of one
\* page) makes exactly one provider call, for which it rasterizes nothing, and when
\* it completes it has one answer and every published field is tagged page 1.
C11_SinglePage ==
  /\ \A i \in DOMAIN runs :
       PagesOf(runs[i]) = 1 =>
         /\ Len(runs[i].used) = 1
         /\ runs[i].pc = "provider"
         /\ runs[i].resp = <<>>
  /\ (Has(outcome, "run") /\ PagesOf(outcome.run) = 1) =>
       /\ Len(outcome.run.used) = 1
       /\ RunCompleted =>
            /\ outcome.run.used[1].invoked
            /\ Len(outcome.run.resp) = 1
            /\ extractedData # Null
            /\ Len(extractedData.fields) = FieldCount(outcome.run.resp[1])
            /\ \A j \in 1..Len(extractedData.fields) : extractedData.fields[j].page = 1

\* a run over a PDF of one page completed with two fields
C11_Witness ==
  /\ RunCompleted
  /\ outcome.run.isPDF
  /\ outcome.run.totalPages = 1
  /\ extractedData # Null
  /\ Len(extractedData.fields) = 2
  /\ extractedData.fields[2].page = 1

\* the last step was a call of the field operation op that found a collection
FieldCall(op) == outcome.op = op /\ outcome.was # Null

\* the ids of a field sequence
IdsOf(fields) == {fields[j].id : j \in 1..Len(fields)}

\* the position of the first field with that id
FirstWithId(fields, fieldId) ==
  CHOOSE j \in 1..Len(fields) :
    /\ fields[j].id = fieldId
    /\ \A h \in 1..(j - 1) : fields[h].id # fieldId

\* a field sequence without its p-th field
WithoutAt(fields, p) == SubSeq(fields, 1, p - 1) \o SubSeq(fields, p + 1, Len(fields))

\* C12: within the field collection every field id is unique in every reachable
\* state, after any sequence of extraction runs, add, update, toggle and delete
\* calls, two adds for the same page at one clock reading included.
C12_UniqueIds ==
  extractedData # Null =>
    \A i, j \in 1..Len(extractedData.fields) :
      i # j => extractedData.fields[i].id # extractedData.fields[j].id

\* C13: in every reachable state every field of the collection has a page from 1
\* to the totalPages of the active document, fields added with a page of the
\* caller's and fields published by a run included.
C13_PagesInRange ==
  extractedData # Null =>
    \A j \in 1..Len(extractedData.fields) :
      extractedData.fields[j].page \in 1..totalPages

\* C14: updateField with an id that is not in the collection fails with an error
\* and leaves the state as it was.
C14_UpdateUnknownId ==
  (FieldCall("updateField") /\ outcome.args.fieldId \notin IdsOf(outcome.was.fields)) =>
    /\ outcome.err # NoError
    /\ extractedData = outcome.was

\* C15: updateField on an existing field gives that field the label and the value
\* of the updates and verified = true; its id, page, type and position, and every
\* other field of the collection, are unchanged.
C15_UpdateApplies ==
  (FieldCall("updateField") /\ outcome.args.fieldId \in IdsOf(outcome.was.fields)) =>
    LET old == outcome.was.fields
        new == extractedData.fields
        updates == outcome.args.updates
        p == FirstWithId(old, outcome.args.fieldId) IN
    /\ outcome.err = NoError
    /\ Len(new) = Len(old)
    /\ \A j \in 1..Len(old) : j # p => new[j] = old[j]
    /\ new[p].label = (IF Has(updates, "label") THEN updates.label ELSE old[p].label)
    /\ new[p].value = (IF Has(updates, "value") THEN updates.value ELSE old[p].value)
    /\ new[p].verified
    /\ new[p].id = old[p].id
    /\ new[p].page = old[p].page
    /\ new[p].type = old[p].type

\* C16: updateField fails, leaving the field unchanged, when the resulting label
\* would be empty, and no field of the collection ever has an empty label.
C16_NoEmptyLabel ==
  /\ extractedData # Null =>
       \A j \in 1..Len(extractedData.fields) : extractedData.fields[j].label # ""
  /\ (FieldCall("updateField") /\ outcome.args.fieldId \in IdsOf(outcome.was.fields)
        /\ GetStr(outcome.args.updates, "label") = "") =>
       /\ outcome.err # NoError
       /\ extractedData = outcome.was

\* C17: addField with an empty label (or none) fails with an error and adds no
\* field to the collection.
C17_AddEmptyLabel ==
  (FieldCall("addField") /\ OrStr(GetStr(outcome.args.fieldData, "label"), "") = "") =>
    /\ outcome.err # NoError
    /\ extractedData = outcome.was

\* C18: addField with a non-empty label appends one field at the end of the
\* collection, with that label, verified = true, confidence 1.0, no boundingBox and
\* the page of the field data (a page number, so not 0) or, when it has none, the
\* document's current page; the fields that were there are unchanged.
C18_AddAppends ==
  (FieldCall("addField") /\ OrStr(GetStr(outcome.args.fieldData, "label"), "") # "") =>
    LET old == outcome.was.fields
        new == extractedData.fields
        fieldData == outcome.args.fieldData
        added == new[Len(new)] IN
    /\ outcome.err = NoError
    /\ Len(new) = Len(old) + 1
    /\ SubSeq(new, 1, Len(old)) = old
    /\ added.label = fieldData.label
    /\ added.verified
    /\ added.confidence = ManualConfidence
    /\ ~Has(added, "boundingBox")
    /\ added.page = (IF GetNum(fieldData, "page") # 0 THEN fieldData.page ELSE outcome.page)

\* a field with a page of the caller's, other than the current page, was added
\* behind an extracted one
C18_Witness ==
  /\ FieldCall("addField")
  /\ outcome.err = NoError
  /\ outcome.args.fieldData.label = "Phone"
  /\ outcome.page = 1
  /\ Len(outcome.was.fields) = 1
  /\ ~outcome.was.fields[1].verified
  /\ Len(extractedData.fields) = 2
  /\ extractedData.fields[2].page = MaxPages
  /\ extractedData.fields[2].verified

\* C19: deleteField removes exactly the field with that id and keeps the others in
\* their order; for an id the collection does not hold (a second delete, an id
\* that never existed) it returns and leaves the collection unchanged.
C19_DeleteExactlyOne ==
  FieldCall("deleteField") =>
    LET old == outcome.was.fields
        new == extractedData.fields
        fieldId == outcome.args.fieldId IN
    /\ outcome.err = NoError
    /\ new = (IF fieldId \in IdsOf(old) THEN WithoutAt(old, FirstWithId(old, fieldId))
              ELSE old)

\* C20: toggleFieldVerification flips verified of exactly the field with that id,
\* and for a field that is not in the collection it is an error.
C20_ToggleExactlyOne ==
  FieldCall("toggleFieldVerification") =>
    LET old == outcome.was.fields
        new == extractedData.fields
        fieldId == outcome.args.fieldId IN
    IF fieldId \in IdsOf(old)
    THEN /\ outcome.err = NoError
         /\ Len(new) = Len(old)
         /\ \A j \in 1..Len(old) :
              new[j] = (IF j = FirstWithId(old, fieldId)
                        THEN [old[j] EXCEPT !.verified = ~@]
                        ELSE old[j])
    ELSE /\ outcome.err # NoError
         /\ extractedData = outcome.was

RECURSIVE ReadFrom(_, _, _, _)
\* A reader of delimited text, from piece i on: quoted says whether it is inside a
\* quoted cell, rows is the table read so far, the last cell of its last row still
\* open.  A comma ends a cell and a line break a row, unless quoted; a quote opens
\* or closes a quoted cell, a doubled quote inside one is a quote.
ReadFrom(text, i, quoted, rows) ==
  IF i > Len(text) THEN rows
  ELSE
    LET c == text[i]
        r == Len(rows)
        put == [rows EXCEPT ![r][Len(rows[r])] = Append(@, c)]
    IN
    IF quoted
    THEN IF c = Quote
         THEN IF i < Len(text) /\ text[i + 1] = Quote
              THEN ReadFrom(text, i + 2, TRUE, put)
              ELSE ReadFrom(text, i + 1, FALSE, rows)
         ELSE ReadFrom(text, i + 1, TRUE, put)
    ELSE IF c = Quote THEN ReadFrom(text, i + 1, TRUE, rows)
    ELSE IF c = Comma THEN ReadFrom(text, i + 1, FALSE, [rows EXCEPT ![r] = Append(@, <<>>)])
    ELSE IF c = LineBreak THEN ReadFrom(text, i + 1, FALSE, Append(rows, <<<<>>>>))
    ELSE ReadFrom(text, i + 1, FALSE, put)

\* the rows of cells a reader finds in a delimited text
ReadTable(text) == ReadFrom(text, 1, FALSE, << << <<>> >> >>)

\* the last step exported delimited text
CsvExported ==
  outcome.op \in {"exportData", "exportToCSV"} /\ outcome.err = NoError
    /\ outcome.format = "csv"

\* C21: the delimited text of an empty or missing field collection is the "no data"
\* sentinel; that of a non-empty collection is a table of the header row Label,
\* Value, Type, Confidence, Verified followed by exactly one row per field, in field
\* order, holding that field's label, value, type, confidence and Yes or No.
C21_DelimitedText ==
  CsvExported =>
    IF ~Has(outcome.data, "fields") \/ outcome.data.fields = <<>>
    THEN outcome.content = <<"No data to export">>
    ELSE ReadTable(outcome.content)
           = <<[j \in 1..Len(headers) |-> <<headers[j]>>]>>
               \o [j \in 1..Len(outcome.data.fields) |-> csvRow(outcome.data.fields[j])]

\* the file types of the allow-list and 10 MiB, as the claim gives them
AllowListed(file) ==
  /\ file.type \in {"image/jpeg", "image/jpg", "image/png", "image/webp", "application/pdf"}
  /\ file.size <= 10 * 1024 * 1024

\* the last step was an uploadForm that was turned away
UploadRejected == outcome.op = "uploadForm" /\ Has(outcome, "file")

\* only files outside the allow-list or over 10 MiB are turned away, with a
\* validation error; every file that got further is inside
C22_RejectState ==
  /\ UploadRejected =>
       /\ ~AllowListed(outcome.file)
       /\ outcome.err \in {<<"Invalid file type. Please upload JPG, PNG, WebP images or PDF files.">>,
                           <<"File too large. Maximum size is 10MB.">>}
  /\ \A i \in DOMAIN uploads : AllowListed(uploads[i].file)
  /\ originalFile # Null => AllowListed(originalFile)

\* the step that turns a file away reports the error, starts no pdf.js call, makes
\* no preview and leaves the document session and the history as they were
C22_RejectStep ==
  (outcome' # outcome /\ outcome'.op = "uploadForm" /\ Has(outcome', "file")) =>
    /\ UNCHANGED <<currentForm, originalFile, extractedData, imagePreview, isPDF,
                   currentPage, totalPages, history>>
    /\ UNCHANGED <<uploads, runs, navs, urls, nextUrl>>
    /\ error' = outcome'.err

C23_OnePreviewLive ==
  /\ Cardinality(urls) <= 1
  /\ outcome.op = "clearForm" => urls = {}

\* an invocation of extractFields that runs the per-page loop
InLoop(run) == isMultiPage(run.isPDF, run.totalPages, run.originalFile)

\* a run in its loop is at one page of 1..N, has the answers of all pages before
\* it and of no other, and the progress marker shows its page
C24_OnePageAtATime ==
  \A i \in DOMAIN runs :
    InLoop(runs[i]) =>
      /\ runs[i].pageNum \in 1..runs[i].totalPages
      /\ Len(runs[i].resp) = runs[i].pageNum - 1
      /\ \A k \in DOMAIN runs[i].allFields :
           runs[i].allFields[k].page \in 1..(runs[i].pageNum - 1)
      /\ processingPage = runs[i].pageNum

\* while a run stays in flight the progress marker stays or goes up by one
C24_MarkerStep ==
  (runs # <<>> /\ Len(runs') >= Len(runs)) =>
    processingPage' \in {processingPage, processingPage + 1}

\* C24: per-page processing is strictly sequential and progress is monotonic: the
\* provider call for page p+1 is not started before page p's call and merge are
\* done, and during a run processingPage takes the values 1, 2, ..., N in
\* increasing order and never decreases.
C24_SequentialPages == []C24_OnePageAtATime /\ [][C24_MarkerStep]_vars

\* C25: when an extraction run fails on page k, the failure reported to the caller
\* carries the page number k and the underlying error kind.  Stated for the runs
\* over a multi-page document, where the page is not known otherwise: the message
\* thrown, which is also the store's error, names page k and holds the cause.
C25_FailureNamesPage ==
  (RunFailed /\ InLoop(outcome.run)) =>
    /\ Contains(outcome.err, ToStr(outcome.run.pageNum))
    /\ \E cause \in RasterErrors \cup ProviderErrors \cup
                    {NotConfiguredMsg(ProviderName(k)) : k \in KnownProviders} :
         \E j \in 0..Len(outcome.err) :
           SubSeq(outcome.err, j + 1, Len(outcome.err)) = cause

\* the last step mapped a provider answer into the run's fields
AnswerMapped == outcome.op \in {"page", "extractFields"} /\ outcome.err = NoError

\* what attribute key of the Field made from the raw field must be: the raw
\* field's own when it has one, the default otherwise
Carried(raw, made, key, default) ==
  made[key] = IF Has(raw, key) THEN raw[key] ELSE default

\* C26: the response-field mapping substitutes defaults only for missing
\* attributes: a missing label becomes "Field N" (N the 1-based position), a
\* missing value the empty string, a missing type text, a missing confidence 0.8;
\* an attribute the provider did supply, a confidence of 0.0 included, is carried
\* into the Field unchanged.
C26_DefaultsOnlyForMissing ==
  AnswerMapped =>
    LET run == outcome.run
        rawData == run.resp[Len(run.resp)]
        n == FieldCount(rawData)
        first == Len(run.allFields) - n
    IN \A j \in 1..n :
         LET raw == rawData.fields[j]
             made == run.allFields[first + j]
         IN /\ Carried(raw, made, "label", FieldN(j - 1))
            /\ Carried(raw, made, "value", "")
            /\ Carried(raw, made, "type", "text")
            /\ Carried(raw, made, "confidence", 80)

\* the last step was an uploadForm that returned { success: true }
UploadSucceeded == outcome.op = "uploadForm" /\ outcome.err = NoError

C28_DiscardedAtStart ==
  /\ \A i \in DOMAIN runs : runs[i].resp = <<>> => extractedData = Null
  /\ (RunFailed /\ outcome.run.resp = <<>>) => extractedData = Null

\* the errors a backend gives for the answers the model ended itself
ErrorsWhenStopped(key) ==
  {serviceExtract(key, reply).err : reply \in {r \in Replies : r.finishReason = "STOP"}}

\* the step of a run whose backend got an answer flagged as cut fails the run
\* with an error the backend gives for no answer that was not cut, and publishes
\* nothing
C29_TruncatedStep ==
  \A i \in DOMAIN runs, reply \in Replies :
    (reply.finishReason # "STOP" /\ backendReplied(i, reply)) =>
      /\ outcome'.op = "extractFields"
      /\ outcome'.err # NoError
      /\ outcome'.err \notin ErrorsWhenStopped(awaited(runs[i]))
      /\ UNCHANGED <<extractedData, history>>

\* C29: every backend fails fast with a distinguishable error, returning no
\* fields, when the model response is flagged as truncated by its finish-reason
\* signal; a truncated response is never parsed into a result that reaches the
\* pipeline.
C29_TruncatedFailsFast == [][C29_TruncatedStep]_vars

RECURSIVE IdsAndPages(_, _)
\* the id and page of every field of the answers for pages 1..p, in order: the
\* j-th field of the answer for page q has the id of position j - 1 and page q
IdsAndPages(resp, p) ==
  IF p = 0 THEN <<>>
  ELSE IdsAndPages(resp, p - 1)
         \o [j \in 1..FieldCount(resp[p]) |-> [id |-> <<"field", j - 1, p>>, page |-> p]]

\* C30: the field ids an extraction run assigns are a function of the field's
\* position in its page's answer and of the page number only: the ids, pages and
\* order of the fields a run returns are IdsAndPages of the answers it got, so two
\* runs over the same document with identical answers give identical ids, pages
\* and order.
C30_IdsFromPosition ==
  RunCompleted =>
    [k \in 1..Len(PublishedFields) |->
       [id |-> PublishedFields[k].id, page |-> PublishedFields[k].page]]
      = IdsAndPages(outcome.run.resp, Len(outcome.run.resp))

\* a second extraction of a document of several pages returned fields of the
\* first and of a later page
C30_Witness ==
  /\ RunCompleted
  /\ nRuns = 2
  /\ Len(history) = 2
  /\ InLoop(outcome.run)
  /\ \E k \in DOMAIN PublishedFields : PublishedFields[k].page = 1
  /\ \E k \in DOMAIN PublishedFields : PublishedFields[k].page > 1

\* the last step was an extractFields that found no document
NoDocument == outcome.op = "extractFields" /\ outcome.err = NoFormMsg /\ ~Has(outcome, "run")

\* an extractFields called with no document throws, starts no invocation and so
\* no provider call, and leaves processing, processingPage, extractedData, error
\* and the history as they were
C31_NoDocumentStep ==
  (currentForm = Null /\ extractFieldsCall(MaxRuns)) =>
    /\ outcome'.op = "extractFields"
    /\ outcome'.err = <<"No form uploaded">>
    /\ UNCHANGED <<processing, processingPage, extractedData, history, error>>
    /\ UNCHANGED <<runs, nRuns>>

\* C31: the pipeline enters Running only when a document is loaded: every
\* invocation in flight was started on a document, and extractFields called with
\* no document fails with an error without making any provider call and without
\* changing processing, processingPage, extractedData or history.
C31_NeedsDocument ==
  /\ [](\A i \in DOMAIN runs : runs[i].currentForm # Null)
  /\ [][C31_NoDocumentStep]_vars

\* extractFields found no document while an earlier invocation, whose document was
\* cleared away, is still in flight and processing is true
C31_Witness ==
  /\ NoDocument
  /\ currentForm = Null
  /\ runs # <<>>
  /\ processing
  /\ processingPage # NullPage \/ history # <<>>

\* C32: the processing flag is true in every state in which an extraction run is in
\* flight, under any interleaving with page navigation and upload; no other action
\* resets it to false while the run is still executing.
C32_ProcessingWhileRunning == runs # <<>> => processing

\* C33: in every reachable state extractedData being present implies that a
\* document is loaded and that the data was extracted from that document: a run
\* still in flight when the session is cleared or replaced by a new upload never
\* publishes its fields into the cleared or new session.
C33_DataOfLoadedDocument ==
  /\ extractedData # Null => currentForm # Null
  /\ AnswerMapped =>
       /\ currentForm # Null
       /\ outcome.run.originalFile = originalFile
       /\ originalFile = Null => outcome.run.currentForm = currentForm

\* every provider call a run has made so far went to the provider whose key the
\* run read from the store when it started
OneProvider(run) ==
  \A c \in 1..Len(run.used) : run.used[c].provider = run.selectedProvider

\* C34: the provider recorded in a run's history entry is the provider that
\* performed every page's extraction in that run: the active provider does not
\* change between the first and the last provider call of a run, and the key the
\* run read from the store at its start is the registry's active provider.
C34_OneProviderPerRun ==
  /\ \A i \in DOMAIN runs : OneProvider(runs[i])
  /\ RunCompleted =>
       /\ OneProvider(outcome.run)
       /\ history[1].provider = ProviderLabel(outcome.run.used[1].provider)

\* C35: the store's selectedProvider equals the registry's current provider in
\* every reachable state, the state after the persisted selectedProvider is
\* restored while the registry recomputes its default included.
C35_ProvidersInSync == selectedProvider = currentProvider

\* C36: an extraction run that fails, on any page or because the provider is not
\* configured, leaves the history list unchanged: the step that settles a failed
\* extractFields does not change history.
C36_FailureKeepsHistory ==
  [][(outcome'.op = "extractFields" /\ outcome'.err # NoError) => history' = history]_vars

\* a run failed on its second page with an earlier run in the history
C36_Witness ==
  /\ RunFailed
  /\ outcome.run.pageNum = 2
  /\ Len(outcome.run.resp) = 1
  /\ Len(history) = 1
  /\ ~processing

\* the step that settles an extractFields invocation, completed or failed, leaves
\* processing false and processingPage null, and on failure the error message
\* recorded
C37_SettledStep ==
  (Len(runs') < Len(runs) \/ (nRuns' > nRuns /\ Len(runs') = Len(runs))) =>
    /\ outcome'.op = "extractFields"
    /\ ~processing'
    /\ processingPage' = NullPage
    /\ outcome'.err # NoError => error' = outcome'.err

\* C37: every extraction run terminates, provided each rasterization and provider
\* call returns or fails: the invocations in flight are all settled in the end,
\* each as Completed or Failed, and in the state it settles in processing is false
\* and processingPage is null, with the error message recorded on failure.
C37_RunsTerminate ==
  /\ (runs # <<>>) ~> (runs = <<>>)
  /\ [][C37_SettledStep]_vars

\* the second of two runs over a document of several pages completed, and none is
\* in flight
C37_Witness ==
  /\ RunCompleted
  /\ InLoop(outcome.run)
  /\ nRuns = MaxLiveRuns
  /\ runs = <<>>
  /\ ~processing
  /\ processingPage = NullPage

\* a goToPage that throws, for a document that is no PDF or a page out of range,
\* leaves the page, the page image, the preview and the flag as they were
C38_RefusedStep ==
  \A pageNumber \in 0..MaxPages + 1 :
    ((~isPDF \/ originalFile = Null \/ pageNumber < 1 \/ pageNumber > totalPages)
       /\ goToPage(pageNumber)) =>
      /\ outcome'.op = "goToPage"
      /\ outcome'.err # NoError
      /\ UNCHANGED <<currentPage, currentForm, imagePreview, processing, navs, urls>>

\* the page shown is a page of the document
C38_InRange == 1 <= currentPage /\ currentPage <= totalPages

\* C38: 1 <= currentPage <= totalPages holds in every reachable state; goToPage
\* with a page number outside [1, totalPages], or on a document that is no PDF,
\* fails and leaves currentPage, the current page image, the preview reference and
\* the processing flag unchanged.
C38_PageInRange ==
  /\ []C38_InRange
  /\ [][C38_RefusedStep]_vars

\* the step that is a clearForm leaves no document, no extracted data, page 1 of
\* 1, no progress marker and no preview, and the history and the provider, in the
\* store and in the registry, as they were; a step that shortens the history is a
\* reset
C39_ClearStep ==
  /\ (outcome'.op = "clearForm" /\ outcome.op # "clearForm") =>
       /\ currentForm' = Null
       /\ originalFile' = Null
       /\ extractedData' = Null
       /\ imagePreview' = Null
       /\ ~isPDF'
       /\ currentPage' = 1
       /\ totalPages' = 1
       /\ processingPage' = NullPage
       /\ UNCHANGED <<history, selectedProvider, currentProvider>>
  /\ Len(history') < Len(history) => outcome'.op = "reset"

\* C39: clearForm tears down only the document session: it resets the document,
\* the extracted data, the page state and the progress marker, and leaves the
\* history list and the selected provider unchanged; only reset empties the
\* history.
C39_ClearKeepsHistory == [][C39_ClearStep]_vars

\* a document with extracted data and a history entry was cleared
C39_Witness ==
  /\ outcome.op = "clearForm"
  /\ history # <<>>
  /\ currentForm = Null
  /\ extractedData = Null
  /\ processingPage = NullPage

====
